---- MODULE Spec2Model ----
(***************************************************************************)
(* Model of deploy.js: the deployment backup / rollback manager.           *)
(* Every awaited runCommand is two steps: the step that spawns the child   *)
(* process and the step that receives its close / error event.  The remote *)
(* host is modelled by the live directory, the backup root and its entries.*)
(***************************************************************************)
EXTENDS Integers, Sequences, FiniteSets, TLC

VARIABLES
    argv,          \* process.argv.slice(2): the set of flags given
    argName,       \* the positional token given after the flags (NoName if none)
    entry,         \* "main" (CLI) or "rollback" (the exported function called directly)
    backupName,    \* the backupName parameter of rollback()
    cfgFile,       \* what loadConfig() returns (deploy-config.json over DEFAULT_CONFIG)
    config,        \* the config object of the running invocation
    localExists,   \* fs.existsSync(config.localPath)
    localFiles,    \* the files of the local public/ directory
    live,          \* the remote live directory (config.remotePath)
    backupRoot,    \* TRUE iff config.backupPath exists on the remote
    backups,       \* the entries under config.backupPath
    now,           \* the clock (Date and remote mtime), one tick per backup
    pc,            \* position of the running invocation
    cmds,          \* the child processes spawned by this invocation, in order
    targetBackup,  \* rollback's targetBackup
    toDelete,      \* cleanOldBackups' remaining toDelete
    answer,        \* the line typed at the confirmation prompt
    ret,           \* the boolean returned by deploy() / rollback()
    exitCode,      \* the code given to process.exit
    terminal,      \* DONE, FAIL, CANCELLED (NONE while running)
    runs,          \* invocations started so far
    created,       \* mtimes of all entries ever created under backupPath
    liveAtStart,   \* the live directory when the invocation started
    backupsAtStart,\* the entries under backupPath when the invocation started
    environ,       \* process.env (after dotenv): the DEPLOY_* variables
    diskFile,      \* deploy-config.json: whether it exists and its parsed JSON
    loaded,        \* the object loadConfig() returned
    savedCfg,      \* the object given to saveConfig()
    cfgPc,         \* position of the load / save sequence
    prev,          \* the previous invocation: was it a non-dry-run deploy that
                   \* ended DONE, and the live directory it started from
    allDone,       \* every invocation so far was a non-dry-run deploy that ended DONE
    argsIn,        \* what deployFiles is called with: config.exclude and dryRun
    rsyncArgs      \* the rsyncArgs array deployFiles built from it

vars == <<argv, argName, entry, backupName, cfgFile, config, localExists,
          localFiles, live, backupRoot, backups, now, pc, cmds, targetBackup,
          toDelete, answer, ret, exitCode, terminal, runs, created, liveAtStart,
          backupsAtStart, prev, allDone, environ, diskFile, loaded, savedCfg,
          cfgPc, argsIn, rsyncArgs>>

cfgVars == <<environ, diskFile, loaded, savedCfg, cfgPc>>
argVars == <<argsIn, rsyncArgs>>

-----------------------------------------------------------------------------
(* Bounds *)
MaxRuns == 3            \* invocations per behaviour
MaxKeep == 2            \* largest maxBackups a configuration holds

MaxFairRuns == 2        \* invocations per behaviour of the fair specification
MaxFileKeys == 2        \* keys a deploy-config.json defines
MaxEnvSet == 1          \* DEPLOY_* variables present in the environment
MaxExclude == 3         \* patterns in an exclude list handed to deployFiles

(* Values *)
NoName == 0             \* no backup name (null / undefined / "")
Unanswered == "<none>"  \* the confirmation prompt has not been answered
NoCode == -1            \* process.exit not called

Flags == {"--help", "-h", "--config", "--rollback", "--dry-run"}

HelpFlagsLongOnly == {"--help"}

\* args.includes("--help") || args.includes("-h")
HelpFlags == {"--help", "-h"}

\* the flags that keep main from reaching deploy()
ModeFlags == HelpFlags \cup {"--config", "--rollback"}

IndexHtml == [stem |-> "index", ext |-> "html"]
AppLog == [stem |-> "app", ext |-> "log"]
Files == {IndexHtml, AppLog}

Pat(s, e) == [stem |-> s, ext |-> e]

\* DEFAULT_CONFIG.exclude
DefaultExclude ==
    << Pat("", "git"), Pat("node_modules", ""), Pat("", "env"),
       Pat("*", "log"), Pat("", "DS_Store") >>

Names == 1..(MaxRuns + 1)
Answers == {"y", "Y", "n", ""}
Outcomes == {"ok", "fail", "error"}

Dir(fs) == [exists |-> TRUE, files |-> fs]
Absent == [exists |-> FALSE, files |-> {}]

Cmd(op, arg, dry) == [op |-> op, arg |-> arg, dry |-> dry, code |-> "running"]

-----------------------------------------------------------------------------
(* Pure helpers *)

Min(a, b) == IF a < b THEN a ELSE b
Max(a, b) == IF a > b THEN a ELSE b

\* Array.prototype.slice(start) with JavaScript's treatment of a negative start
Slice(s, start) ==
    LET from == IF start < 0 THEN Max(Len(s) + start, 0) ELSE Min(start, Len(s))
    IN  SubSeq(s, from + 1, Len(s))

IncludesAlways(s, x) == TRUE

\* Array.prototype.includes
Includes(s, x) == \E i \in 1..Len(s) : s[i] = x

\* `ls -1t`: the names of the entries, newest modification time first
RECURSIVE LsT(_)
LsT(bs) ==
    IF bs = {} THEN << >>
    ELSE LET newest == CHOOSE b \in bs : \A c \in bs : c.mtime <= b.mtime
         IN  <<newest.name>> \o LsT(bs \ {newest})

\* stdout of `ls -1t` as lines: an empty directory prints one empty line
LsStdout(bs) == IF bs = {} THEN <<NoName>> ELSE LsT(bs)

\* result.stdout.trim().split("\n").filter(Boolean)
ParseListing(lines) == SelectSeq(lines, LAMBDA l : l # NoName)

\* rsync's exclude matching of one pattern against one file
Matches(p, f) == (p.stem = "*" \/ p.stem = f.stem) /\ p.ext = f.ext

Excluded(ex, f) == \E i \in 1..Len(ex) : Matches(ex[i], f)

SyncResultSendsExcluded(local, remote, ex) ==
    local \cup {f \in remote : Excluded(ex, f)}

\* rsync -avz --delete with excludes: excluded files are neither sent nor deleted
SyncResult(local, remote, ex) ==
    {f \in local : ~Excluded(ex, f)} \cup {f \in remote : Excluded(ex, f)}

\* the states a tree can be left in when a copy from old to new is interrupted
Partial(old, new) == {s \in SUBSET (old \cup new) : (old \cap new) \subseteq s}

Running(c) == Len(c) > 0 /\ c[Len(c)].code = "running"

\* the close event is not waited for
ClosedNotAwaited(c, code) == c

\* runCommand's promise settles: the child of the last command has exited
Closed(c, code) == [c EXCEPT ![Len(c)].code = code]

\* runCommand's promise rejects on a non-zero close code and on a spawn error
CommandRejects(code) == code # "ok"

testConnectionAlwaysTrue(code) == TRUE

\* testConnection(): true when the command resolved, false from its catch
testConnection(code) == ~CommandRejects(code)

createBackupSwallows(code) == FALSE

\* createBackup's catch logs and rethrows
createBackupThrows(code) == CommandRejects(code)

ExitCodeAlwaysZero(success) == 0

\* main: process.exit(success ? 0 : 1)
ExitCodeOf(success) == IF success THEN 0 ELSE 1

ConfigErrorHostOnly(c, exists) == c.host = ""

\* deploy's configuration checks: not configured, or local source missing
ConfigError(c, exists) == c.host = "" \/ ~exists

SelectTargetOldest(name, listing) ==
    IF name # NoName THEN name ELSE listing[Len(listing)]

SelectTargetIgnoresName(name, listing) == listing[1]

\* rollback: const targetBackup = backupName || backups[0]
SelectTarget(name, listing) == IF name # NoName THEN name ELSE listing[1]

RollbackResultAlwaysTrue(code) == TRUE

\* rollback: true after the restore resolved, false from the catch
RollbackResult(code) == ~CommandRejects(code)

ConfirmedUnlessNo(a) == a # "n"

\* answer.toLowerCase() === "y"
Confirmed(a) == a \in {"y", "Y"}

-----------------------------------------------------------------------------
(* Configuration *)

\* the configurations a deploy-config.json can yield; loadConfig validates
\* nothing, so maxBackups may be negative
Configs ==
    [host : {"", "droplet"}, maxBackups : (-1)..MaxKeep,
     requireConfirmation : BOOLEAN, exclude : {DefaultExclude}]

\* loadConfig(): the persisted file merged over DEFAULT_CONFIG
loadConfig == cfgFile

-----------------------------------------------------------------------------
(* loadConfig / saveConfig over all keys.  A value is written as its JSON   *)
(* text; a configuration object is a function from its keys to values.      *)

EnvKeys == {"host", "user", "port", "keyPath", "remotePath", "backupPath"}
Keys == EnvKeys \cup {"localPath", "exclude", "maxBackups", "requireConfirmation"}

Unset == "undefined"    \* process.env.X of a variable that is not set

\* the literals of DEFAULT_CONFIG; localPath is path.join(__dirname, "public")
HardDefault(k) ==
    CASE k = "host" -> ""
      [] k = "user" -> "root"
      [] k = "port" -> "22"
      [] k = "keyPath" -> "~/.ssh/id_rsa"
      [] k = "remotePath" -> "/var/www/nomasdesinformacion"
      [] k = "backupPath" -> "/var/www/nomasdesinformacion-backups"
      [] k = "localPath" -> "__dirname/public"
      [] k = "exclude" -> "[.git,node_modules,.env,*.log,.DS_Store]"
      [] k = "maxBackups" -> "5"
      [] k = "requireConfirmation" -> "true"

\* process.env.X || literal
OrDefault(v, literal) == IF v = Unset \/ v = "" THEN literal ELSE v

\* DEFAULT_CONFIG, built once at startup
DEFAULT_CONFIG(env) ==
    [k \in Keys |-> IF k \in EnvKeys THEN OrDefault(env[k], HardDefault(k))
                    ELSE HardDefault(k)]

SpreadFirstWins(a, b) ==
    [k \in DOMAIN a \cup DOMAIN b |-> IF k \in DOMAIN a THEN a[k] ELSE b[k]]

\* { ...a, ...b }
Spread(a, b) ==
    [k \in DOMAIN a \cup DOMAIN b |-> IF k \in DOMAIN b THEN b[k] ELSE a[k]]

\* loadConfig() as a function of the environment and the file
loadConfigFrom(env, file) ==
    IF file.exists THEN Spread(DEFAULT_CONFIG(env), file.json)
    ELSE DEFAULT_CONFIG(env)

Without(c, k) == [j \in DOMAIN c \ {k} |-> c[j]]

saveConfigKeepsLocalPath(c) == [exists |-> TRUE, json |-> c]

\* saveConfig(config): the file written, localPath deleted from the copy
saveConfig(c) == [exists |-> TRUE, json |-> Without(c, "localPath")]

\* configureDeployment's question(): answer.trim() || defaultValue
Question(typed, defaultValue) == IF typed # "" THEN typed ELSE defaultValue

NoFile == [exists |-> FALSE, json |-> << >>]

\* the environments and files the load / save sequence starts from
Envs ==
    {e \in [EnvKeys -> {Unset, "", "env"}] :
        Cardinality({k \in EnvKeys : e[k] # Unset}) <= MaxEnvSet}

SmallKeySets == {D \in SUBSET Keys : Cardinality(D) <= MaxFileKeys}

DiskFiles ==
    {NoFile} \cup
    {[exists |-> TRUE, json |-> f] : f \in UNION {[D -> {"", "file"}] : D \in SmallKeySets}}

\* the patterns an exclude list is made of; "" is the empty string
Patterns == {"", "*.log", ".git"}

RECURSIVE ListsUpTo(_, _)
ListsUpTo(S, n) ==
    IF n = 0 THEN {<< >>}
    ELSE LET shorter == ListsUpTo(S, n - 1)
         IN  shorter \cup {Append(l, x) : l \in {m \in shorter : Len(m) = n - 1}, x \in S}

ExcludeLists == ListsUpTo(Patterns, MaxExclude)

\* Array.prototype.filter(Boolean) on an array of strings: drops every ""
FilterBoolean(a) == SelectSeq(a, LAMBDA x : x # "")

\* config.exclude.flatMap((e) => ["--exclude", e])
RECURSIVE excludeArgs(_)
excludeArgs(ex) ==
    IF ex = << >> THEN << >> ELSE <<"--exclude", Head(ex)>> \o excludeArgs(Tail(ex))

\* the four arguments after the excludes: -e, the ssh transport, source, target
Transport == <<"-e", "ssh -i key -p 22", "public/", "root@droplet:/var/www/site/">>

\* deployFiles: the rsyncArgs array
RsyncArgs(ex, dry) ==
    FilterBoolean(<<"-avz", "--delete", IF dry THEN "--dry-run" ELSE "">>
                  \o excludeArgs(ex) \o Transport)

\* no argument list is tracked
ArgsIdle ==
    /\ argsIn = [exclude |-> << >>, dryRun |-> FALSE]
    /\ rsyncArgs = << >>

\* no load / save sequence is tracked
CfgIdle ==
    /\ environ = [k \in EnvKeys |-> Unset]
    /\ diskFile = NoFile
    /\ loaded = << >>
    /\ savedCfg = << >>
    /\ cfgPc = "off"

-----------------------------------------------------------------------------
(* Initial state: nothing deployed by this tool yet, no invocation running *)

Init ==
    /\ cfgFile \in Configs
    /\ config = cfgFile
    /\ argv = {}
    /\ argName = NoName
    /\ entry = "main"
    /\ backupName = NoName
    /\ localExists = TRUE
    /\ localFiles = {IndexHtml}
    /\ live \in {Dir({IndexHtml}), Dir(Files)}
    /\ backupRoot = FALSE
    /\ backups = {}
    /\ now = 0
    /\ pc = "idle"
    /\ cmds = << >>
    /\ targetBackup = NoName
    /\ toDelete = << >>
    /\ answer = Unanswered
    /\ ret = FALSE
    /\ exitCode = NoCode
    /\ terminal = "NONE"
    /\ runs = 0
    /\ created = {}
    /\ liveAtStart = live
    /\ backupsAtStart = {}
    /\ prev = [deployed |-> FALSE, live |-> Absent]
    /\ allDone = TRUE
    /\ CfgIdle
    /\ ArgsIdle

-----------------------------------------------------------------------------
(* Frames *)

remoteVars == <<live, backupRoot, backups, now, created>>
inputVars == <<argv, argName, entry, backupName, localExists, localFiles, runs,
               liveAtStart, backupsAtStart, prev>>

\* what the invocation that just ended leaves for the next one to look back on
Previous ==
    LET deployed == /\ pc = "exited" /\ entry = "main" /\ terminal = "DONE"
                    /\ argv \cap Flags = {}
    IN  [deployed |-> deployed, live |-> IF deployed THEN liveAtStart ELSE Absent]
resultVars == <<ret, exitCode, terminal, allDone>>

\* the invocation ends: deploy()/rollback() returned r; main calls
\* process.exit(success ? 0 : 1), a direct call of rollback() does not exit
Finish(r, term) ==
    /\ pc' = "exited"
    /\ ret' = r
    /\ terminal' = term
    /\ exitCode' = IF entry = "main" THEN ExitCodeOf(r) ELSE NoCode
    /\ allDone' = (allDone /\ term = "DONE" /\ entry = "main"
                   /\ argv \cap Flags = {})

-----------------------------------------------------------------------------
(* The environment starts an invocation: the CLI, or rollback() called by   *)
(* an importing script.  Inputs the chosen mode never reads are left at     *)
(* their defaults.                                                          *)

\* the names a caller can usefully pass: every name a backup has ever had, and
\* one that no backup has had (all names never created behave alike)
Candidates == 1..(now + 1)

InvokeMain ==
    /\ pc = "idle"
    /\ runs < MaxRuns
    /\ runs' = runs + 1
    /\ entry' = "main"
    /\ argv' \in SUBSET Flags
    /\ argName' \in IF "--rollback" \in argv' THEN {NoName} \cup Candidates ELSE {NoName}
    /\ \E le \in BOOLEAN, lf \in SUBSET Files :
          /\ (argv' \cap ModeFlags # {}
                 => le = TRUE /\ lf = {IndexHtml})
          /\ (~le => lf = {})
          /\ localExists' = le
          /\ localFiles' = lf
    /\ backupName' = NoName
    /\ pc' = "main"
    /\ cmds' = << >>
    /\ targetBackup' = NoName
    /\ toDelete' = << >>
    /\ answer' = Unanswered
    /\ ret' = FALSE
    /\ exitCode' = NoCode
    /\ terminal' = "NONE"
    /\ liveAtStart' = live
    /\ backupsAtStart' = backups
    /\ UNCHANGED <<cfgVars, argVars, cfgFile, config, remoteVars, prev, allDone>>

InvokeRollback ==
    /\ pc = "idle"
    /\ runs < MaxRuns
    /\ runs' = runs + 1
    /\ entry' = "rollback"
    /\ argv' = {}
    /\ argName' = NoName
    /\ backupName' \in {NoName} \cup Candidates
    /\ localExists' = TRUE
    /\ localFiles' = {IndexHtml}
    /\ pc' = "rollback"
    /\ cmds' = << >>
    /\ targetBackup' = NoName
    /\ toDelete' = << >>
    /\ answer' = Unanswered
    /\ ret' = FALSE
    /\ exitCode' = NoCode
    /\ terminal' = "NONE"
    /\ liveAtStart' = live
    /\ backupsAtStart' = backups
    /\ UNCHANGED <<cfgVars, argVars, cfgFile, config, remoteVars, prev, allDone>>

\* the process has ended: none of its memory is left for the next invocation;
\* the remote host and the config file stay as it left them
ProcessEnds ==
    /\ pc = "exited"
    /\ pc' = "idle"
    /\ prev' = Previous
    /\ argv' = {}
    /\ argName' = NoName
    /\ entry' = "main"
    /\ backupName' = NoName
    /\ localExists' = TRUE
    /\ localFiles' = {IndexHtml}
    /\ config' = cfgFile
    /\ cmds' = << >>
    /\ targetBackup' = NoName
    /\ toDelete' = << >>
    /\ answer' = Unanswered
    /\ ret' = FALSE
    /\ exitCode' = NoCode
    /\ terminal' = "NONE"
    /\ liveAtStart' = live
    /\ backupsAtStart' = backups
    /\ UNCHANGED <<cfgVars, argVars, cfgFile, remoteVars, runs, allDone>>

-----------------------------------------------------------------------------
(* main(): mode selection *)

MainHelp ==
    /\ pc = "main"
    /\ argv \cap HelpFlags # {}
    /\ pc' = "exited"
    /\ exitCode' = 0
    /\ ret' = TRUE
    /\ terminal' = "NONE"
    /\ allDone' = FALSE
    /\ UNCHANGED <<cfgVars, argVars, cfgFile, config, inputVars, remoteVars, cmds, targetBackup,
                   toDelete, answer>>

\* configureDeployment(): the prompts, then testConnection is spawned
MainConfig ==
    /\ pc = "main"
    /\ argv \cap HelpFlags = {}
    /\ "--config" \in argv
    /\ \E typed \in {"", "droplet"} :
          config' = [loadConfig EXCEPT !.host = IF typed # "" THEN typed ELSE @]
    /\ cmds' = Append(cmds, Cmd("test", NoName, FALSE))
    /\ pc' = "cf_test"
    /\ UNCHANGED <<cfgVars, argVars, cfgFile, inputVars, remoteVars, resultVars, targetBackup,
                   toDelete, answer>>

\* testConnection returned (true or false): saveConfig, process.exit(0)
ConfigTestClose ==
    /\ pc = "cf_test"
    /\ \E code \in Outcomes : cmds' = Closed(cmds, code)
    /\ cfgFile' = config
    /\ UNCHANGED <<cfgVars, argVars>>
    /\ pc' = "exited"
    /\ exitCode' = 0
    /\ ret' = TRUE
    /\ terminal' = "NONE"
    /\ allDone' = FALSE
    /\ UNCHANGED <<config, inputVars, remoteVars, targetBackup, toDelete, answer>>

\* rollback(): up to its first await, the listing command is spawned
RollbackBegin(name) ==
    /\ config' = loadConfig
    /\ backupName' = name
    /\ cmds' = Append(cmds, Cmd("ls", NoName, FALSE))
    /\ pc' = "rb_ls"
    /\ UNCHANGED <<cfgVars, argVars, cfgFile, argv, argName, entry, localExists, localFiles, runs,
                   liveAtStart, backupsAtStart, prev, remoteVars, resultVars,
                   targetBackup, toDelete, answer>>

\* the --rollback branch behind deploy's host check
MainRollbackGated ==
    /\ pc = "main"
    /\ argv \cap HelpFlags = {}
    /\ "--config" \notin argv
    /\ "--rollback" \in argv
    /\ IF loadConfig.host = ""
       THEN /\ config' = loadConfig
            /\ Finish(FALSE, "FAIL")
            /\ UNCHANGED <<cfgVars, argVars, cfgFile, inputVars, remoteVars, cmds,
                           targetBackup, toDelete, answer>>
       ELSE RollbackBegin(NoName)

\* main's --rollback branch: rollback(config) is called without a name
MainRollback ==
    /\ pc = "main"
    /\ argv \cap HelpFlags = {}
    /\ "--config" \notin argv
    /\ "--rollback" \in argv
    /\ RollbackBegin(NoName)

-----------------------------------------------------------------------------
(* rollback(config, backupName) *)

\* an importing script calls the exported rollback(config, backupName)
RollbackCall ==
    /\ pc = "rollback"
    /\ RollbackBegin(backupName)

\* the removal and the copy as two commands, one after the other
SpawnRestoreInTwoCommands(c, target) ==
    Append(Append(c, [op |-> "rm", arg |-> NoName, dry |-> FALSE, code |-> "ok"]),
           Cmd("restore", target, FALSE))

\* rollback(): the one command `rm -rf remotePath && cp -r backup remotePath`
\* is spawned
SpawnRestore(c, target) == Append(c, Cmd("restore", target, FALSE))

\* the listing closed: choose the target and spawn the restore, or return false
RollbackListClose ==
    /\ pc = "rb_ls"
    /\ \E code \in Outcomes :
          /\ (code = "ok" => backupRoot)
          /\ IF CommandRejects(code)
             THEN /\ cmds' = Closed(cmds, code)
                  /\ Finish(FALSE, "NONE")
                  /\ UNCHANGED targetBackup
             ELSE LET listing == ParseListing(LsStdout(backups))
                      target == SelectTarget(backupName, listing)
                  IN  IF Len(listing) = 0
                      THEN /\ cmds' = Closed(cmds, code)
                           /\ Finish(FALSE, "NONE")
                           /\ UNCHANGED targetBackup
                      ELSE IF ~Includes(listing, target)
                      THEN /\ cmds' = Closed(cmds, code)
                           /\ Finish(FALSE, "NONE")
                           /\ targetBackup' = target
                      ELSE /\ cmds' = SpawnRestore(Closed(cmds, code), target)
                           /\ targetBackup' = target
                           /\ pc' = "rb_restore"
                           /\ UNCHANGED resultVars
    /\ UNCHANGED <<cfgVars, argVars, cfgFile, config, inputVars, remoteVars, toDelete, answer>>

\* what `rm -rf remotePath && cp -r backupPath/target remotePath` can leave behind
RestoreEffect(code, target) ==
    LET src == {x \in backups : x.name = target}
    IN  CASE code = "ok"    -> {Dir(b.files) : b \in src}
          [] code = "error" -> {live}
          [] OTHER          -> {live, Absent} \cup
                               UNION {{Dir(s) : s \in SUBSET b.files} : b \in src}

\* mv in place of cp -r
BackupsAfterRestoreMoved(code, target) ==
    IF code = "ok" THEN {b \in backups : b.name # target} ELSE backups

\* `cp -r backupPath/target remotePath` reads the backup and leaves it in place
BackupsAfterRestore(code, target) == backups

\* the restore command closed
RollbackRestoreClose ==
    /\ pc = "rb_restore"
    /\ \E code \in Outcomes :
          /\ (code = "ok" => \E b \in backups : b.name = targetBackup)
          /\ cmds' = Closed(cmds, code)
          /\ live' \in RestoreEffect(code, targetBackup)
          /\ backups' = BackupsAfterRestore(code, targetBackup)
          /\ Finish(RollbackResult(code), "NONE")
    /\ UNCHANGED <<cfgVars, argVars, cfgFile, config, inputVars, backupRoot, now, created,
                   targetBackup, toDelete, answer>>

-----------------------------------------------------------------------------
(* deploy(options) *)

dryRun == "--dry-run" \in argv

deployCatchRestores(c) == Append(c, Cmd("restore", NoName, FALSE))

\* deploy()'s catch: prints the advice to roll back and returns false; it
\* spawns nothing
deployCatch(c) == c

\* createBackup(): up to its first await, `mkdir -p backupPath` is spawned
SpawnMkdir(c) == Append(c, Cmd("mkdir", NoName, FALSE))

\* deployFiles(): the rsync command is spawned
SpawnRsync(c) == Append(c, Cmd("rsync", NoName, dryRun))

\* deploy() up to its first await: the configuration checks, then testConnection
DeployBegin ==
    /\ pc = "main"
    /\ argv \cap ModeFlags = {}
    /\ config' = loadConfig
    /\ IF ConfigError(config', localExists)
       THEN /\ Finish(FALSE, "FAIL")
            /\ UNCHANGED cmds
       ELSE /\ cmds' = Append(cmds, Cmd("test", NoName, FALSE))
            /\ pc' = "dp_test"
            /\ UNCHANGED resultVars
    /\ UNCHANGED <<cfgVars, argVars, cfgFile, inputVars, remoteVars, targetBackup, toDelete, answer>>

\* testConnection closed: return false, prompt, or go on to backup / sync
DeployTestClose ==
    /\ pc = "dp_test"
    /\ \E code \in Outcomes :
          IF ~testConnection(code)
          THEN /\ cmds' = Closed(cmds, code)
               /\ Finish(FALSE, "FAIL")
          ELSE IF config.requireConfirmation /\ ~dryRun
          THEN /\ cmds' = Closed(cmds, code)
               /\ pc' = "dp_confirm"
               /\ UNCHANGED resultVars
          ELSE IF ~dryRun
          THEN /\ cmds' = SpawnMkdir(Closed(cmds, code))
               /\ pc' = "bk_mkdir"
               /\ UNCHANGED resultVars
          ELSE /\ cmds' = SpawnRsync(Closed(cmds, code))
               /\ pc' = "dp_rsync"
               /\ UNCHANGED resultVars
    /\ UNCHANGED <<cfgVars, argVars, cfgFile, config, inputVars, remoteVars, targetBackup,
                   toDelete, answer>>

\* confirm(): the user answered the prompt
DeployConfirm ==
    /\ pc = "dp_confirm"
    /\ answer' \in Answers
    /\ IF Confirmed(answer')
       THEN /\ cmds' = SpawnMkdir(cmds)
            /\ pc' = "bk_mkdir"
            /\ UNCHANGED resultVars
       ELSE /\ Finish(FALSE, "CANCELLED")
            /\ UNCHANGED cmds
    /\ UNCHANGED <<cfgVars, argVars, cfgFile, config, inputVars, remoteVars, targetBackup, toDelete>>

\* `mkdir -p backupPath` closed: spawn the copy, or createBackup throws
BackupMkdirClose ==
    /\ pc = "bk_mkdir"
    /\ \E code \in Outcomes :
          /\ backupRoot' \in CASE code = "ok"    -> {TRUE}
                               [] code = "error" -> {backupRoot}
                               [] OTHER          -> {backupRoot, TRUE}
          /\ IF ~createBackupThrows(code)
             THEN /\ cmds' = Append(Closed(cmds, code), Cmd("cp", now + 1, FALSE))
                  /\ now' = now + 1
                  /\ pc' = "bk_cp"
                  /\ UNCHANGED resultVars
             ELSE /\ cmds' = deployCatch(Closed(cmds, code))
                  /\ Finish(FALSE, "FAIL")
                  /\ UNCHANGED now
    /\ UNCHANGED <<cfgVars, argVars, cfgFile, config, inputVars, live, backups, created,
                   targetBackup, toDelete, answer>>

Entry(name, fs) == [name |-> name, mtime |-> name, files |-> fs]

\* what `cp -r remotePath backupPath/backupName` can leave under backupPath
CopyEffect(code, name) ==
    CASE code = "ok"    -> {backups \cup {Entry(name, live.files)}}
      [] code = "error" -> {backups}
      [] OTHER          -> {backups} \cup
                           (IF backupRoot /\ live.exists
                            THEN {backups \cup {Entry(name, s)} : s \in SUBSET live.files}
                            ELSE {})

\* the backup copy closed: spawn cleanOldBackups' listing, or createBackup throws
BackupCopyClose ==
    /\ pc = "bk_cp"
    /\ \E code \in Outcomes :
          /\ (code = "ok" => backupRoot /\ live.exists)
          /\ backups' \in CopyEffect(code, cmds[Len(cmds)].arg)
          /\ created' = created \cup {b.mtime : b \in backups'}
          /\ IF ~createBackupThrows(code)
             THEN /\ cmds' = Append(Closed(cmds, code), Cmd("ls", NoName, FALSE))
                  /\ pc' = "cl_ls"
                  /\ UNCHANGED resultVars
             ELSE /\ cmds' = deployCatch(Closed(cmds, code))
                  /\ Finish(FALSE, "FAIL")
    /\ UNCHANGED <<cfgVars, argVars, cfgFile, config, inputVars, live, backupRoot, now,
                   targetBackup, toDelete, answer>>

cleanOldBackupsRethrows(code) == CommandRejects(code)

\* cleanOldBackups' catch only warns: nothing propagates to createBackup
cleanOldBackupsThrows(code) == FALSE

RemainingStuck(td) == td

\* cleanOldBackups' for-of loop: the entries still to delete after this one
Remaining(td) == Tail(td)

\* slice(0, keep) in place of slice(keep)
ExcessDropsNewest(listing, keep) ==
    LET to == IF keep < 0 THEN Max(Len(listing) + keep, 0) ELSE Min(keep, Len(listing))
    IN  IF Len(listing) > keep THEN SubSeq(listing, 1, to) ELSE << >>

ExcessKeepsOneMore(listing, keep) ==
    IF Len(listing) > keep + 1 THEN Slice(listing, keep + 1) ELSE << >>

\* cleanOldBackups: the entries beyond the first maxBackups of the listing
Excess(listing, keep) == IF Len(listing) > keep THEN Slice(listing, keep) ELSE << >>

\* cleanOldBackups' listing closed: spawn the first delete, or go on to the sync
CleanListClose ==
    /\ pc = "cl_ls"
    /\ \E code \in Outcomes :
          /\ (code = "ok" => backupRoot)
          /\ LET del == IF code = "ok"
                        THEN Excess(ParseListing(LsStdout(backups)), config.maxBackups)
                        ELSE << >>
             IN  IF cleanOldBackupsThrows(code)
                 THEN /\ cmds' = Closed(cmds, code)
                      /\ toDelete' = << >>
                      /\ Finish(FALSE, "FAIL")
                 ELSE IF Len(del) > 0
                 THEN /\ cmds' = Append(Closed(cmds, code), Cmd("rm", del[1], FALSE))
                      /\ toDelete' = del
                      /\ pc' = "cl_rm"
                      /\ UNCHANGED resultVars
                 ELSE /\ cmds' = SpawnRsync(Closed(cmds, code))
                      /\ toDelete' = << >>
                      /\ pc' = "dp_rsync"
                      /\ UNCHANGED resultVars
    /\ UNCHANGED <<cfgVars, argVars, cfgFile, config, inputVars, remoteVars, targetBackup, answer>>

\* what `rm -rf backupPath/backup` can leave under backupPath
RemoveEffect(code, name) ==
    LET without == {b \in backups : b.name # name}
    IN  CASE code = "ok"    -> {without}
          [] code = "error" -> {backups}
          [] OTHER          -> {backups, without}

\* one delete closed: spawn the next delete, or go on to the sync
CleanRemoveClose ==
    /\ pc = "cl_rm"
    /\ \E code \in Outcomes :
          /\ backups' \in RemoveEffect(code, toDelete[1])
          /\ LET rest == Remaining(toDelete)
             IN  IF cleanOldBackupsThrows(code)
                 THEN /\ cmds' = Closed(cmds, code)
                      /\ UNCHANGED toDelete
                      /\ Finish(FALSE, "FAIL")
                 ELSE IF code = "ok" /\ Len(rest) > 0
                 THEN /\ cmds' = Append(Closed(cmds, code), Cmd("rm", rest[1], FALSE))
                      /\ toDelete' = rest
                      /\ pc' = "cl_rm"
                      /\ UNCHANGED resultVars
                 ELSE /\ cmds' = SpawnRsync(Closed(cmds, code))
                      /\ toDelete' = IF code = "ok" THEN rest ELSE toDelete
                      /\ pc' = "dp_rsync"
                      /\ UNCHANGED resultVars
    /\ UNCHANGED <<cfgVars, argVars, cfgFile, config, inputVars, live, backupRoot, now, created,
                   targetBackup, answer>>

\* what the rsync command can leave in the live directory
RsyncEffect(code, dry) ==
    LET new == SyncResult(localFiles, live.files, config.exclude)
    IN  IF dry \/ code = "error" THEN {live}
        ELSE IF code = "ok" THEN {Dir(new)}
        ELSE {live} \cup {Dir(s) : s \in Partial(live.files, new)}

\* rsync closed: deploy returns true, or deployFiles throws and deploy returns false
DeployRsyncClose ==
    /\ pc = "dp_rsync"
    /\ \E code \in Outcomes :
          /\ cmds' = IF CommandRejects(code) THEN deployCatch(Closed(cmds, code))
                                               ELSE Closed(cmds, code)
          /\ live' \in RsyncEffect(code, cmds[Len(cmds)].dry)
          /\ IF CommandRejects(code) THEN Finish(FALSE, "FAIL") ELSE Finish(TRUE, "DONE")
    /\ UNCHANGED <<cfgVars, argVars, cfgFile, config, inputVars, backupRoot, backups, now, created,
                   targetBackup, toDelete, answer>>

-----------------------------------------------------------------------------
Next ==
    \/ InvokeMain
    \/ InvokeRollback
    \/ ProcessEnds
    \/ MainHelp
    \/ MainConfig
    \/ ConfigTestClose
    \/ MainRollback
    \/ RollbackCall
    \/ RollbackListClose
    \/ RollbackRestoreClose
    \/ DeployBegin
    \/ DeployTestClose
    \/ DeployConfirm
    \/ BackupMkdirClose
    \/ BackupCopyClose
    \/ CleanListClose
    \/ CleanRemoveClose
    \/ DeployRsyncClose

Spec == Init /\ [][Next]_vars

\* every step of the program itself is eventually taken, and every child
\* process and the confirmation prompt eventually complete; nothing obliges
\* the environment to start another invocation
Fairness ==
    /\ WF_vars(MainHelp)
    /\ WF_vars(MainConfig)
    /\ WF_vars(ConfigTestClose)
    /\ WF_vars(MainRollback)
    /\ WF_vars(RollbackCall)
    /\ WF_vars(RollbackListClose)
    /\ WF_vars(RollbackRestoreClose)
    /\ WF_vars(DeployBegin)
    /\ WF_vars(DeployTestClose)
    /\ WF_vars(DeployConfirm)
    /\ WF_vars(BackupMkdirClose)
    /\ WF_vars(BackupCopyClose)
    /\ WF_vars(CleanListClose)
    /\ WF_vars(CleanRemoveClose)
    /\ WF_vars(DeployRsyncClose)

\* the same program, with fewer invocations per behaviour
FairInvokeMain == runs < MaxFairRuns /\ InvokeMain
FairInvokeRollback == runs < MaxFairRuns /\ InvokeRollback

FairNext ==
    \/ FairInvokeMain
    \/ FairInvokeRollback
    \/ ProcessEnds
    \/ MainHelp
    \/ MainConfig
    \/ ConfigTestClose
    \/ MainRollback
    \/ RollbackCall
    \/ RollbackListClose
    \/ RollbackRestoreClose
    \/ DeployBegin
    \/ DeployTestClose
    \/ DeployConfirm
    \/ BackupMkdirClose
    \/ BackupCopyClose
    \/ CleanListClose
    \/ CleanRemoveClose
    \/ DeployRsyncClose

FairSpec == Init /\ [][FairNext]_vars /\ Fairness

-----------------------------------------------------------------------------
(* The configuration sequence on its own: load, the --config prompts, save, *)
(* and the load of the next run.                                            *)

deployVars == <<argv, argName, entry, backupName, cfgFile, config, localExists,
                localFiles, live, backupRoot, backups, now, pc, cmds,
                targetBackup, toDelete, answer, ret, exitCode, terminal, runs,
                created, liveAtStart, backupsAtStart, prev, allDone>>

CfgInit ==
    /\ cfgFile = [host |-> "", maxBackups |-> MaxKeep,
                  requireConfirmation |-> TRUE, exclude |-> DefaultExclude]
    /\ config = cfgFile
    /\ argv = {"--config"}
    /\ argName = NoName
    /\ entry = "main"
    /\ backupName = NoName
    /\ localExists = TRUE
    /\ localFiles = {IndexHtml}
    /\ live = Dir({IndexHtml})
    /\ backupRoot = FALSE
    /\ backups = {}
    /\ now = 0
    /\ pc = "main"
    /\ cmds = << >>
    /\ targetBackup = NoName
    /\ toDelete = << >>
    /\ answer = Unanswered
    /\ ret = FALSE
    /\ exitCode = NoCode
    /\ terminal = "NONE"
    /\ runs = 1
    /\ created = {}
    /\ liveAtStart = live
    /\ backupsAtStart = {}
    /\ prev = [deployed |-> FALSE, live |-> Absent]
    /\ allDone = FALSE
    /\ environ \in Envs
    /\ diskFile \in DiskFiles
    /\ loaded = << >>
    /\ savedCfg = << >>
    /\ cfgPc = "start"
    /\ ArgsIdle

\* const config = loadConfig()
CfgLoad ==
    /\ cfgPc = "start"
    /\ loaded' = loadConfigFrom(environ, diskFile)
    /\ cfgPc' = "loaded"
    /\ UNCHANGED <<deployVars, argVars, environ, diskFile, savedCfg>>

\* configureDeployment: one prompt answered with a non-empty line
CfgConfigure ==
    /\ cfgPc = "loaded"
    /\ \E k \in EnvKeys, typed \in {"", "typed"} :
          loaded' = [loaded EXCEPT ![k] = Question(typed, @)]
    /\ cfgPc' = "edited"
    /\ UNCHANGED <<deployVars, argVars, environ, diskFile, savedCfg>>

\* saveConfig(config)
CfgSave ==
    /\ cfgPc \in {"loaded", "edited"}
    /\ savedCfg' = loaded
    /\ diskFile' = saveConfig(loaded)
    /\ cfgPc' = "saved"
    /\ UNCHANGED <<deployVars, argVars, environ, loaded>>

\* loadConfig() of the next run, in the same environment
CfgReload ==
    /\ cfgPc = "saved"
    /\ loaded' = loadConfigFrom(environ, diskFile)
    /\ cfgPc' = "reloaded"
    /\ UNCHANGED <<deployVars, argVars, environ, diskFile, savedCfg>>

CfgNext ==
    \/ CfgLoad
    \/ CfgConfigure
    \/ CfgSave
    \/ CfgReload

CfgSpec == CfgInit /\ [][CfgNext]_vars

-----------------------------------------------------------------------------
(* deployFiles(config, dryRun) as a function of its inputs: the argument   *)
(* list it hands to rsync                                                  *)

ArgsInit ==
    /\ cfgFile = [host |-> "droplet", maxBackups |-> MaxKeep,
                  requireConfirmation |-> FALSE, exclude |-> DefaultExclude]
    /\ config = cfgFile
    /\ argv = {}
    /\ argName = NoName
    /\ entry = "main"
    /\ backupName = NoName
    /\ localExists = TRUE
    /\ localFiles = {IndexHtml}
    /\ live = Dir({IndexHtml})
    /\ backupRoot = FALSE
    /\ backups = {}
    /\ now = 0
    /\ pc = "main"
    /\ cmds = << >>
    /\ targetBackup = NoName
    /\ toDelete = << >>
    /\ answer = Unanswered
    /\ ret = FALSE
    /\ exitCode = NoCode
    /\ terminal = "NONE"
    /\ runs = 1
    /\ created = {}
    /\ liveAtStart = live
    /\ backupsAtStart = {}
    /\ prev = [deployed |-> FALSE, live |-> Absent]
    /\ allDone = FALSE
    /\ CfgIdle
    /\ argsIn \in [exclude : ExcludeLists, dryRun : BOOLEAN]
    /\ rsyncArgs = << >>

\* const rsyncArgs = [...].filter(Boolean)
ArgsBuild ==
    /\ rsyncArgs = << >>
    /\ rsyncArgs' = RsyncArgs(argsIn.exclude, argsIn.dryRun)
    /\ UNCHANGED <<deployVars, cfgVars, argsIn>>

ArgsNext == ArgsBuild

ArgsSpec == ArgsInit /\ [][ArgsNext]_vars

TypeOK ==
    /\ argv \subseteq Flags
    /\ live.exists \in BOOLEAN
    /\ pc \in {"idle", "main", "rollback", "cf_test", "rb_ls", "rb_restore",
               "dp_test", "dp_confirm", "bk_mkdir", "bk_cp", "cl_ls", "cl_rm",
               "dp_rsync", "exited"}
    /\ exitCode \in {0, 1, NoCode}

-----------------------------------------------------------------------------
(* Vocabulary of the properties *)

Issued(op) == \E i \in 1..Len(cmds) : cmds[i].op = op
Rejected(i) == cmds[i].code \in {"fail", "error"}

\* the invocation is (or was) a deploy run of the CLI
DeployRun ==
    /\ entry = "main"
    /\ argv \cap ModeFlags = {}
    /\ pc \notin {"idle", "main"}

\* the invocation is (or was) main's --rollback mode
CliRollbackRun ==
    /\ entry = "main"
    /\ argv \cap HelpFlags = {} /\ "--config" \notin argv /\ "--rollback" \in argv
    /\ pc \notin {"idle", "main"}

\* rollback() has been entered, from main or from an importing script
RollbackRun == CliRollbackRun \/ (entry = "rollback" /\ pc # "rollback")

\* the n largest elements of S
TopN(S, n) == {x \in S : Cardinality({y \in S : y > x}) < n}

CleanupSucceeded ==
    \A i \in 1..Len(cmds) : cmds[i].op \in {"ls", "rm"} => cmds[i].code = "ok"

\* a non-dry-run deploy has just ended DONE, as did every invocation before it,
\* and at least maxBackups backups have been created
AfterGoodDeploys ==
    /\ pc = "exited" /\ DeployRun /\ "--dry-run" \notin argv
    /\ terminal = "DONE" /\ allDone
    /\ config.maxBackups >= 0
    /\ Cardinality(created) >= config.maxBackups

KeptNewest ==
    /\ Cardinality(backups) = config.maxBackups
    /\ {b.mtime : b \in backups} = TopN(created, config.maxBackups)

-----------------------------------------------------------------------------
(* C1 (as stated): after any sequence of successful non-dry-run deploys    *)
(* that created at least maxBackups backups, exactly maxBackups backups    *)
(* remain and they are the most recently created ones.                     *)
C1_RetentionAfterEverySuccessfulDeploy == AfterGoodDeploys => KeptNewest

(* C1 (amended): the same, provided the retention cleanup of the last      *)
(* deploy succeeded, that is its listing and every delete it issued exited *)
(* with status zero.                                                       *)
C1_RetentionKeepsNewest == (AfterGoodDeploys /\ CleanupSucceeded) => KeptNewest

C1_Witness ==
    /\ AfterGoodDeploys /\ CleanupSucceeded
    /\ config.maxBackups = 2
    /\ Cardinality(created) = 3
    /\ {b.mtime : b \in backups} = {2, 3}
    /\ Issued("rm")

(* C2: in a non-dry-run deploy run the rsync command is issued only after  *)
(* the backup copy of the same run exited with status zero; when the       *)
(* backup-root creation or the backup copy fails the run ends in FAIL and  *)
(* no sync command is issued.                                              *)
C2_BackupBeforeSync ==
    (DeployRun /\ "--dry-run" \notin argv) =>
        /\ \A i \in 1..Len(cmds) :
              cmds[i].op = "rsync" =>
                 \E j \in 1..(i - 1) : cmds[j].op = "cp" /\ cmds[j].code = "ok"
        /\ \A j \in 1..Len(cmds) :
              (cmds[j].op \in {"mkdir", "cp"} /\ Rejected(j)) =>
                 /\ pc = "exited" /\ terminal = "FAIL" /\ ret = FALSE
                 /\ ~Issued("rsync")

C2_Witness ==
    /\ DeployRun /\ "--dry-run" \notin argv
    /\ pc = "dp_rsync"
    /\ \E j \in 1..Len(cmds) : cmds[j].op = "cp" /\ cmds[j].code = "ok"

(* C3: a CLI invocation whose arguments include --dry-run never creates a  *)
(* backup, never issues the restore command, and issues no sync command    *)
(* without the simulate-only modifier, whatever the other flags are.       *)
C3_DryRunNeverMutates ==
    (entry = "main" /\ "--dry-run" \in argv) =>
        /\ ~Issued("cp")
        /\ ~Issued("restore")
        /\ \A i \in 1..Len(cmds) : cmds[i].op = "rsync" => cmds[i].dry

(* C4: when the loaded configuration has no host, or the local source      *)
(* directory does not exist, deploy returns false without issuing any      *)
(* remote command.                                                         *)
C4_FailFastOnConfigError ==
    (DeployRun /\ (config.host = "" \/ ~localExists)) =>
        /\ pc = "exited" /\ ret = FALSE
        /\ cmds = << >>
        /\ live = liveAtStart /\ backups = backupsAtStart

C4_Witness ==
    /\ DeployRun /\ config.host # "" /\ ~localExists
    /\ pc = "exited" /\ ret = FALSE /\ cmds = << >>

(* C5: in every deploy run the connection test is the first remote         *)
(* command, and when it fails the run ends in FAIL with no further command.*)
C5_ConnectivityFirst ==
    (DeployRun /\ Len(cmds) >= 1) =>
        /\ cmds[1].op = "test"
        /\ Rejected(1) =>
              /\ Len(cmds) = 1
              /\ pc = "exited" /\ terminal = "FAIL" /\ ret = FALSE

C5_Witness ==
    /\ DeployRun /\ Len(cmds) = 1
    /\ cmds[1].op = "test" /\ cmds[1].code = "fail"
    /\ pc = "exited" /\ terminal = "FAIL"

(* C6: rollback called without a backup name restores the existing backup  *)
(* with the most recent remote modification time.                          *)
C6_RollbackDefaultsToNewest ==
    (RollbackRun /\ backupName = NoName) =>
        \A i \in 1..Len(cmds) :
           cmds[i].op = "restore" =>
              \E b \in backups :
                 /\ b.name = cmds[i].arg
                 /\ \A c \in backups : c.mtime <= b.mtime

C6_Witness ==
    /\ RollbackRun /\ backupName = NoName
    /\ Issued("restore")
    /\ Cardinality(backups) >= 2

\* the listing resolved and shows no backup, or not the backup asked for
NothingToRestore ==
    /\ Len(cmds) >= 1 /\ cmds[1].op = "ls" /\ cmds[1].code = "ok"
    /\ \/ backups = {}
       \/ backupName # NoName /\ \A b \in backups : b.name # backupName

(* C7: when the listing is empty, or the explicit name is not in the       *)
(* listing, rollback returns false, the listing is the only remote command *)
(* issued and the live directory is untouched.                             *)
C7_FailedRollbackLeavesRemote ==
    (RollbackRun /\ NothingToRestore) =>
        /\ pc = "exited" /\ ret = FALSE
        /\ Len(cmds) = 1
        /\ live = liveAtStart

C7_Witness ==
    /\ RollbackRun /\ NothingToRestore
    /\ backups # {} /\ backupName # NoName
    /\ pc = "exited" /\ ret = FALSE

RestoreSucceeded ==
    \E i \in 1..Len(cmds) : cmds[i].op = "restore" /\ cmds[i].code = "ok"

(* C8: rollback with an explicit name that is in the listing, when its     *)
(* restore command succeeds, returns true and leaves the live directory    *)
(* with exactly the contents of the named backup.                          *)
C8_NamedRollbackRestores ==
    (RollbackRun /\ pc = "exited" /\ backupName # NoName /\ RestoreSucceeded) =>
        /\ ret = TRUE
        /\ \E b \in backups : b.name = backupName /\ live = Dir(b.files)

C8_Witness ==
    /\ RollbackRun /\ pc = "exited" /\ backupName # NoName /\ RestoreSucceeded
    /\ live # liveAtStart
    /\ \E b \in backups : b.mtime > backupName

(* C9: rollback returns a boolean for every outcome of its commands: a     *)
(* rejected command ends it with false, and it returns true exactly when   *)
(* the restore command was issued and exited with status zero.             *)
C9_RollbackReturnsBoolean ==
    RollbackRun =>
        /\ \A i \in 1..Len(cmds) : Rejected(i) => pc = "exited" /\ ret = FALSE
        /\ pc = "exited" => ret \in BOOLEAN /\ (ret <=> RestoreSucceeded)

C9_Witness ==
    /\ RollbackRun /\ pc = "exited"
    /\ \E i \in 1..Len(cmds) : cmds[i].op = "restore" /\ cmds[i].code = "error"
    /\ ret = FALSE

(* C10: the CLI invocation --rollback followed by a backup name restores   *)
(* that named backup; with no name it restores the newest backup.          *)
C10_CliRollbackRestoresNamed ==
    CliRollbackRun =>
        \A i \in 1..Len(cmds) :
           cmds[i].op = "restore" =>
              IF argName # NoName
              THEN cmds[i].arg = argName
              ELSE \A c \in backups : c.mtime <= cmds[i].arg


(* C11: in every CLI mode the process exits with 0 only if the operation   *)
(* succeeded and with 1 on any failure: a failed connection test, a failed *)
(* backup, a failed sync, a failed rollback or a declined confirmation.    *)
C11_ExitCodeReportsFailure ==
    (entry = "main" /\ pc = "exited") =>
        /\ exitCode \in {0, 1}
        /\ exitCode = 0 =>
              /\ terminal # "CANCELLED"
              /\ \A i \in 1..Len(cmds) :
                    cmds[i].op \in {"test", "mkdir", "cp", "rsync", "restore"}
                       => ~Rejected(i)


CleanupRejected(i) == cmds[i].op \in {"ls", "rm"} /\ Rejected(i)

SyncSucceeded ==
    \E i \in 1..Len(cmds) : cmds[i].op = "rsync" /\ cmds[i].code = "ok"

(* C12: when the backup copy succeeded, a failure of cleanOldBackups'      *)
(* listing or of one of its deletes does not fail the deploy: the sync is  *)
(* the next command issued and the run ends DONE exactly when the sync     *)
(* succeeds.                                                               *)
C12_CleanupIsBestEffort ==
    DeployRun =>
        \A i \in 1..Len(cmds) :
           CleanupRejected(i) =>
              /\ \E j \in 1..(i - 1) : cmds[j].op = "cp" /\ cmds[j].code = "ok"
              /\ Len(cmds) = i + 1 /\ cmds[i + 1].op = "rsync"
              /\ pc = "exited" =>
                    /\ (terminal = "DONE") <=> SyncSucceeded
                    /\ ret <=> SyncSucceeded

C12_Witness ==
    /\ DeployRun /\ pc = "exited" /\ terminal = "DONE" /\ exitCode = 0
    /\ \E i \in 1..Len(cmds) : cmds[i].op = "rm" /\ Rejected(i)


(* C13: with maxBackups >= 1, after a successful non-dry-run deploy         *)
(* immediately followed by a successful --rollback with no name, the live  *)
(* directory equals its contents just before that deploy's sync.           *)
C13_RollbackUndoesLastDeploy ==
    (/\ CliRollbackRun /\ pc = "exited" /\ ret = TRUE
     /\ prev.deployed
     /\ config.maxBackups >= 1) => live = prev.live

C13_Witness ==
    /\ CliRollbackRun /\ pc = "exited" /\ ret = TRUE
    /\ prev.deployed /\ config.maxBackups >= 1
    /\ live = prev.live /\ live # liveAtStart
    /\ Cardinality(backups) >= 2


FileDefines(k) == diskFile.exists /\ k \in DOMAIN diskFile.json
EnvGives(k) == k \in EnvKeys /\ environ[k] # Unset /\ environ[k] # ""

(* C14: for every configuration key, loadConfig returns the value of the   *)
(* persisted file if the file defines the key, otherwise the value of the  *)
(* corresponding environment variable if it is set and non-empty,          *)
(* otherwise the hard-coded default.                                       *)
C14_ConfigPrecedence ==
    cfgPc \in {"loaded", "reloaded"} =>
        /\ Keys \subseteq DOMAIN loaded
        /\ \A k \in Keys :
              loaded[k] = IF FileDefines(k) THEN diskFile.json[k]
                          ELSE IF EnvGives(k) THEN environ[k]
                          ELSE HardDefault(k)
        /\ (~FileDefines("user") /\ ~EnvGives("user")) => loaded["user"] = "root"
        /\ (~FileDefines("port") /\ ~EnvGives("port")) => loaded["port"] = "22"
        /\ (~FileDefines("host") /\ ~EnvGives("host")) => loaded["host"] = ""

C14_Witness ==
    /\ cfgPc = "loaded"
    /\ FileDefines("host") /\ diskFile.json["host"] = ""
    /\ environ["host"] = "env"
    /\ loaded["host"] = ""
    /\ loaded["user"] = "root"

(* C15: saveConfig never writes the localPath key, and loadConfig after    *)
(* saveConfig(c) returns a configuration equal to c on every key except    *)
(* localPath, whose value is the path derived from the script's location.  *)
C15_SaveLoadRoundTrip ==
    /\ cfgPc \in {"saved", "reloaded"} =>
          /\ diskFile.exists
          /\ "localPath" \notin DOMAIN diskFile.json
    /\ cfgPc = "reloaded" =>
          /\ DOMAIN loaded = DOMAIN savedCfg
          /\ \A k \in DOMAIN savedCfg \ {"localPath"} : loaded[k] = savedCfg[k]
          /\ loaded["localPath"] = "__dirname/public"

C15_Witness ==
    /\ cfgPc = "reloaded"
    /\ savedCfg["localPath"] = "file"
    /\ loaded["localPath"] = "__dirname/public"
    /\ savedCfg["host"] = "typed" /\ loaded["host"] = "typed"


(* C16: every configuration under which a deploy issues remote commands    *)
(* satisfies maxBackups >= 0.                                              *)
C16_MaxBackupsNonNegative ==
    (DeployRun /\ Len(cmds) >= 1) => config.maxBackups >= 0


\* a non-dry-run deploy whose sync succeeded, with "*.log" in the exclude list
SyncedExcludingLogs ==
    /\ DeployRun /\ pc = "exited" /\ terminal = "DONE" /\ "--dry-run" \notin argv
    /\ \E i \in 1..Len(config.exclude) : config.exclude[i] = Pat("*", "log")

(* C17 (as stated): after a successful non-dry-run sync every local file   *)
(* matching *.log is absent from the remote target, for every prior        *)
(* content of the remote target.                                           *)
C17_LocalLogsAbsentFromRemote ==
    SyncedExcludingLogs =>
        \A f \in localFiles : f.ext = "log" => f \notin live.files

(* C17 (amended): after such a sync every local file matching *.log is     *)
(* absent from the remote target unless a file of that name was already in *)
(* the remote target before the sync; the sync neither sends nor deletes   *)
(* an excluded file.                                                       *)
C17_LocalLogsNotSent ==
    SyncedExcludingLogs =>
        \A f \in Files :
           f.ext = "log" => (f \in live.files <=> f \in liveAtStart.files)

C17_Witness ==
    /\ SyncedExcludingLogs
    /\ AppLog \in localFiles
    /\ AppLog \notin liveAtStart.files
    /\ AppLog \notin live.files
    /\ IndexHtml \in live.files


\* main has selected the deploy mode and deploy() is about to run
DeployStarting ==
    /\ pc = "main" /\ entry = "main"
    /\ argv \cap ModeFlags = {}

DeployEnded ==
    /\ pc = "exited"
    /\ terminal \in {"DONE", "FAIL", "CANCELLED"}
    /\ exitCode = IF terminal = "DONE" THEN 0 ELSE 1

(* C18: when every child process and the confirmation prompt eventually    *)
(* complete, every deploy invocation eventually reaches one of the         *)
(* terminal states DONE, FAIL, CANCELLED, exiting with 0 for DONE and 1    *)
(* for FAIL and CANCELLED.                                                 *)
C18_DeployTerminates == DeployStarting ~> DeployEnded

C18_Witness ==
    /\ DeployRun /\ DeployEnded
    /\ terminal = "CANCELLED" /\ exitCode = 1


\* the confirmation gate applies to this run
Gated == config.requireConfirmation /\ "--dry-run" \notin argv
Prompted == pc = "dp_confirm" \/ answer # Unanswered
PastGate == Issued("mkdir") \/ Issued("cp") \/ Issued("rsync")

(* C19: when requireConfirmation is true and the run is not a dry run,     *)
(* backup and sync commands are issued only after the user answered y or   *)
(* Y, and any other answer ends the run CANCELLED with no backup and no    *)
(* sync; otherwise no prompt happens and the run never ends CANCELLED.     *)
C19_ConfirmationGate ==
    DeployRun =>
        /\ Gated =>
              /\ PastGate => answer \in {"y", "Y"}
              /\ (Prompted /\ pc # "dp_confirm" /\ answer \notin {"y", "Y"}) =>
                    /\ pc = "exited" /\ terminal = "CANCELLED"
                    /\ ~PastGate
              /\ terminal = "CANCELLED" => answer \notin {Unanswered, "y", "Y"}
        /\ ~Gated => ~Prompted /\ terminal # "CANCELLED"

C19_Witness ==
    /\ DeployRun /\ Gated
    /\ answer = "Y"
    /\ Issued("cp") /\ Issued("rsync")


(* C20: within one invocation each remote step is issued at most once      *)
(* (each backup is deleted by at most one command), so a command that      *)
(* failed is never issued again.                                           *)
C20_NoRetry ==
    \A i, j \in 1..Len(cmds) :
       (i < j) => <<cmds[i].op, cmds[i].arg>> # <<cmds[j].op, cmds[j].arg>>

C20_Witness ==
    /\ DeployRun /\ pc = "exited"
    /\ \E i, j \in 1..Len(cmds) :
          /\ i < j
          /\ cmds[i].op = "rm" /\ cmds[i].code = "ok"
          /\ cmds[j].op = "rm" /\ Rejected(j)
    /\ Issued("rsync")


(* C21: remote operations are strictly sequential: at every point of a     *)
(* deploy or rollback invocation at most one child process is in flight,   *)
(* and it is the one started last; a command is started only after the     *)
(* previous one has exited.                                                *)
C21_StrictlySequential ==
    \A i \in 1..Len(cmds) :
        cmds[i].code = "running" => (i = Len(cmds) /\ pc \notin {"idle", "exited"})

C21_Witness ==
    /\ DeployRun /\ pc = "cl_rm"
    /\ Len(cmds) >= 5
    /\ cmds[Len(cmds)].code = "running"
    /\ \A i \in 1..(Len(cmds) - 1) : cmds[i].code = "ok"


(* C22: no automatic recovery: a deploy invocation never issues the        *)
(* rollback restore command; no command at all follows a failed backup     *)
(* step or the sync, so the live directory stays as the sync left it.      *)
C22_NoAutomaticRecovery ==
    DeployRun =>
        /\ \A i \in 1..Len(cmds) : cmds[i].op # "restore"
        /\ \A i \in 1..Len(cmds) :
              (cmds[i].op = "rsync" \/ (cmds[i].op \in {"mkdir", "cp"} /\ Rejected(i)))
                 => i = Len(cmds)

C22_Witness ==
    /\ DeployRun /\ "--dry-run" \notin argv
    /\ pc = "exited" /\ terminal = "FAIL" /\ ret = FALSE
    /\ Len(cmds) > 0
    /\ cmds[Len(cmds)].op = "rsync" /\ cmds[Len(cmds)].code = "fail"
    /\ live # liveAtStart


(* C23: when cleanOldBackups finds more than maxBackups entries it deletes *)
(* the excess oldest-first: every delete command it issues targets the     *)
(* backup with the oldest modification time still under backupPath.        *)
C23_DeletesOldestFirst ==
    (DeployRun /\ pc = "cl_rm") =>
        \A b \in backups : b.mtime >= cmds[Len(cmds)].arg


(* C24: old backups are deleted only after a successful deploy: a deploy   *)
(* run that ends without a successful sync has issued no backup delete     *)
(* command.                                                                *)
C24_DeleteOnlyAfterSuccessfulSync ==
    (DeployRun /\ pc = "exited" /\ terminal # "DONE") => ~Issued("rm")


(* C25: rollback mutates the live directory through exactly one remote     *)
(* command, the combined remove-then-copy: a rollback issues the listing   *)
(* and at most that one command after it, and the live directory differs   *)
(* from what it was at the start only once that command has exited without *)
(* a spawn error. (That the removal can succeed and the copy fail, leaving *)
(* the live directory absent with rollback returning false, is the state   *)
(* C25_Witness describes.)                                                 *)
C25_SingleRestoreCommand ==
    RollbackRun =>
        /\ Len(cmds) <= 2
        /\ \A i \in 1..Len(cmds) : cmds[i].op = (IF i = 1 THEN "ls" ELSE "restore")
        /\ live # liveAtStart =>
              /\ Len(cmds) = 2
              /\ cmds[2].code \in {"ok", "fail"}

C25_Witness ==
    /\ RollbackRun /\ pc = "exited"
    /\ Len(cmds) = 2 /\ cmds[2].op = "restore" /\ cmds[2].code = "fail"
    /\ ret = FALSE
    /\ liveAtStart.exists /\ live = Absent


(* C26: a safety snapshot exists whenever the live site is overwritten:    *)
(* while a non-dry-run sync command is in flight, the backup this run      *)
(* created is still under backupPath, for every maxBackups >= 0.           *)
C26_SnapshotPresentAtSync ==
    (DeployRun /\ "--dry-run" \notin argv /\ pc = "dp_rsync" /\ config.maxBackups >= 0) =>
        \A i \in 1..Len(cmds) :
            cmds[i].op = "cp" => \E b \in backups : b.name = cmds[i].arg


\* the position in rsyncArgs of the first --exclude, were nothing dropped
FirstExclude == IF argsIn.dryRun THEN 4 ELSE 3

(* C27: the sync command's argument list always contains --delete, contains *)
(* --dry-run exactly when dryRun is true, and contains for every pattern of *)
(* the exclude list, in list order, an adjacent pair (--exclude, pattern),  *)
(* followed by the transport option, the local source and the remote       *)
(* target.                                                                 *)
C27_SyncArguments ==
    rsyncArgs # << >> =>
        LET ex == argsIn.exclude
            k == FirstExclude
        IN  /\ \E i \in 1..Len(rsyncArgs) : rsyncArgs[i] = "--delete"
            /\ (\E i \in 1..Len(rsyncArgs) : rsyncArgs[i] = "--dry-run") <=> argsIn.dryRun
            /\ Len(rsyncArgs) = (k - 1) + 2 * Len(ex) + 4
            /\ \A i \in 1..Len(ex) :
                  /\ rsyncArgs[k + 2 * (i - 1)] = "--exclude"
                  /\ rsyncArgs[k + 2 * (i - 1) + 1] = ex[i]
            /\ SubSeq(rsyncArgs, k + 2 * Len(ex), Len(rsyncArgs)) = Transport


(* C28: exactly one CLI mode runs per invocation, chosen by the precedence *)
(* --help/-h, then --config, then --rollback, then deploy: the invocation  *)
(* is only ever inside the code of the selected mode and issues only that  *)
(* mode's commands, whatever lower-precedence flags are also given.        *)
C28_OneModeByPrecedence ==
    (entry = "main" /\ pc # "idle") =>
        LET ops == {cmds[i].op : i \in 1..Len(cmds)}
        IN  IF argv \cap {"--help", "-h"} # {}
            THEN ops = {} /\ pc \in {"main", "exited"}
            ELSE IF "--config" \in argv
            THEN ops \subseteq {"test"} /\ pc \in {"main", "cf_test", "exited"}
            ELSE IF "--rollback" \in argv
            THEN /\ ops \subseteq {"ls", "restore"}
                 /\ pc \in {"main", "rb_ls", "rb_restore", "exited"}
            ELSE /\ ops \subseteq {"test", "mkdir", "cp", "ls", "rm", "rsync"}
                 /\ pc \in {"main", "dp_test", "dp_confirm", "bk_mkdir", "bk_cp",
                            "cl_ls", "cl_rm", "dp_rsync", "exited"}

C28_Witness ==
    /\ entry = "main" /\ pc = "exited"
    /\ argv = {"--config", "--rollback", "--dry-run"}
    /\ Len(cmds) = 1 /\ cmds[1].op = "test"
    /\ exitCode = 0


(* C29: rollback leaves the backup set unchanged: at every point of a      *)
(* rollback, whatever its outcome, the entries under backupPath (names,    *)
(* modification times and contents) are those present when it started.     *)
C29_RollbackKeepsBackups == RollbackRun => backups = backupsAtStart

C29_Witness ==
    /\ RollbackRun /\ pc = "exited" /\ ret = TRUE
    /\ Cardinality(backups) >= 2
    /\ live # liveAtStart


(* C30: the --rollback CLI mode reaches the destructive restore command    *)
(* without any of deploy's gates: whatever the configuration (no host,     *)
(* requireConfirmation true), its first step is the backup listing, it     *)
(* issues no connection test, asks no confirmation, and makes no backup of *)
(* the current live directory before the restore command removes it.       *)
C30_RollbackHasNoGates ==
    CliRollbackRun =>
        /\ Len(cmds) >= 1 /\ cmds[1].op = "ls"
        /\ \A i \in 1..Len(cmds) : cmds[i].op \notin {"test", "mkdir", "cp"}
        /\ answer = Unanswered
        /\ \A i \in 1..Len(cmds) : cmds[i].op = "restore" => i = 2

C30_Witness ==
    /\ CliRollbackRun /\ config.requireConfirmation
    /\ pc = "exited" /\ ret = TRUE
    /\ Len(cmds) = 2 /\ cmds[2].op = "restore" /\ cmds[2].code = "ok"
    /\ live # liveAtStart

====
